---- MODULE Spec2Model ----
(***************************************************************************)
(* A model of AbstractJSONRPC (src/src/AbstractJSONRPC.ts): the            *)
(* correlation table of pending calls with their timeout timers, the       *)
(* handler registry with target scoping, the listener registry, the        *)
(* outbound queue of events with its flush, and the dispatch of inbound    *)
(* requests, events and responses.                                         *)
(*                                                                         *)
(* JavaScript runs every callback to completion on one thread, so each     *)
(* public method, each transport callback and each timer callback is one   *)
(* atomic action.                                                          *)
(***************************************************************************)
EXTENDS Integers, Sequences, FiniteSets

(***************************************************************************)
(* Bounds of the model.                                                    *)
(***************************************************************************)
\* calls issued through callHandler in one run
MaxCalls == 2
\* the largest reading of Date.now(); readings start one below it, so that
\* the decimal rendering of the clock changes its width during a run
MaxNow == 10
\* entries one method's handler list may hold
MaxEntries == 2
\* handler invocations whose promise has not settled yet
MaxPending == 1

(***************************************************************************)
(* Values.  Everything that JavaScript would hold in one untyped slot is a *)
(* string here.                                                            *)
(***************************************************************************)
\* `undefined`: a target that was not passed, a Sendable that does not exist
Undefined == "undefined"
\* JSONRPCTarget values the application passes
Targets == {"A", "B"}
\* Sendable.id values
Identities == {"w1", "w2"}
\* what getSendable(target) does: returns a Sendable (named by its id),
\* returns undefined, or throws
Throws == "throws"
ResolveValues == Identities \cup {Undefined, Throws}
\* method names
Methods == {"m", "n"}
\* the timeout argument of callHandler: omitted, 0, a positive number, or
\* Infinity
TimeoutArgs ==
  { [k |-> "undefined", v |-> 0],
    [k |-> "num", v |-> 0],
    [k |-> "num", v |-> 100],
    [k |-> "inf", v |-> 0] }
\* the default timeout, from './constants'; its documented value is 30s
DEFAULT_TIMEOUT == [k |-> "num", v |-> 30000]
\* Number.MAX_SAFE_INTEGER is 2^53 - 1; the model checker's integers have 32
\* bits, so the modulus is kept at the largest value it can hold.  No run of
\* MaxCalls calls reaches either.
MAX_SAFE_INTEGER == 2147483647
RPC_SEND_CHANNEL == "RPC_SEND_CHANNEL"
RPC_RECEIVE_CHANNEL == "RPC_RECEIVE_CHANNEL"

VARIABLES
  uid,            \* this.uid
  now,            \* the latest reading of Date.now()
  resolve,        \* what getSendable does for each target at present
  responder,      \* this.responder: id -> Responder
  calls,          \* every callHandler made: its arguments, what
                  \* getSendable did for its target (binding), the closure
                  \* variables `resolved` and `timer` of send, and the
                  \* invocations of the caller's callback (cb)
  handlers,       \* this.handlers: method -> list of {target, callback}
  listeners,      \* this.listeners: method -> list of {target, callback}
  scheduleQueue,  \* this.scheduleQueue: Sendable id -> queued events
  queueTick,      \* this.queueTick
  flushTimers,    \* the setTimeout(this.flushQueue) timers not yet run
  pending,        \* handler promises that have not settled
  op,             \* the operation the last step performed
  exc,            \* what the last step threw out of the engine
  ret,            \* what the last step returned
  out,            \* the sender.send calls of the last step, in order
  invoked         \* the handler and listener entries whose callback the
                  \* last step invoked, in order

vars ==
  <<uid, now, resolve, responder, calls, handlers, listeners, scheduleQueue,
    queueTick, flushTimers, pending, op, exc, ret, out, invoked>>

\* the listener registry and the outbound queue
eventVars == <<listeners, scheduleQueue, queueTick, flushTimers>>

\* the outbound queue alone
queueVars == <<scheduleQueue, queueTick, flushTimers>>

(***************************************************************************)
(* Template literals: the decimal rendering of a number.                   *)
(***************************************************************************)
DigitChar == <<"0", "1", "2", "3", "4", "5", "6", "7", "8", "9">>

RECURSIVE Decimal(_)
Decimal(n) ==
  IF n < 10 THEN DigitChar[n + 1]
  ELSE Decimal(n \div 10) \o DigitChar[(n % 10) + 1]

(***************************************************************************)
(* Property lookup on an object literal.  this.responder starts as {} and  *)
(* so inherits from Object.prototype: obj[key] finds an own property, else *)
(* an inherited one (a function, or Object.prototype itself), else         *)
(* undefined.                                                              *)
(***************************************************************************)
ObjectPrototypeKeys == {"constructor", "toString", "valueOf", "__proto__"}

\* an inherited value: not null, and without a `callback` property
Inherited == [call |-> 0, name |-> "Object.prototype"]
NoResponder == [call |-> 0, name |-> Undefined]

HasOwn(obj, key) == key \in DOMAIN obj

LookupOldest(obj, key) ==
  IF DOMAIN obj = {} THEN NoResponder
  ELSE obj[CHOOSE k \in DOMAIN obj : \A j \in DOMAIN obj : obj[k].call <= obj[j].call]

Lookup(obj, key) ==
  IF HasOwn(obj, key) THEN obj[key]
  ELSE IF key \in ObjectPrototypeKeys THEN Inherited
  ELSE NoResponder

\* obj[key] = value
Put(obj, key, value) ==
  [k \in DOMAIN obj \cup {key} |-> IF k = key THEN value ELSE obj[k]]

\* delete obj[key]
Delete(obj, key) == [k \in DOMAIN obj \ {key} |-> obj[k]]

(***************************************************************************)
(* getId, getSender                                                        *)
(***************************************************************************)
NextUidStuck(u) == u

NextUid(u) == (u + 1) % MAX_SAFE_INTEGER

getIdTimeOnly(u, t) == Decimal(t)

getId(u, t) == Decimal(NextUid(u)) \o Decimal(t)

getSenderNoCatch(target) == resolve[target]

getSender(target) ==
  IF resolve[target] = Throws THEN Undefined ELSE resolve[target]

(***************************************************************************)
(* Date.now() is the wall clock.  It moves forward, and it may be stepped  *)
(* back; a step back does not take it across a power of ten (the width of  *)
(* epoch milliseconds changed in 2001 and changes next in 2286).           *)
(***************************************************************************)
NowRange == (MaxNow - 1)..MaxNow

\* a wider range, with readings of either width on both sides of the change
WideNowRange == (MaxNow - 2)..(MaxNow + 1)

ClockReading(t) == t >= now \/ Len(Decimal(t)) = Len(Decimal(now))

(***************************************************************************)
(* What a caller's callback receives: callback(result, error).             *)
(***************************************************************************)
NoError == [code |-> "null", methodName |-> Undefined]

Outcome(result, error) == [result |-> result, error |-> error]

\* new AbstractJSONRPC.Error(code, ...), methodName not set
NewError(code) == [code |-> code, methodName |-> Undefined]

\* the bodies of the responses the peer may deliver: a ResponseSuccess
\* (no `error` key) or a ResponseError
ResponseBodies ==
  { [error |-> "null", result |-> "r1"],
    [error |-> "E42", result |-> Undefined] }

\* JSONRPCError.recoverFromResponse: the code of the wire error, and the
\* method name the Responder captured
recoverFromResponse(res, r) == [code |-> res.error, methodName |-> r.name]

(***************************************************************************)
(* send: the timeout that applies, and whether a timer is started.         *)
(***************************************************************************)
\* a JavaScript number is falsy when it is 0; undefined is falsy
Truthy(timeout) ==
  \/ timeout.k = "inf"
  \/ timeout.k = "num" /\ timeout.v # 0

\* timeout || DEFAULT_TIMEOUT
OrDefault(timeout) == IF Truthy(timeout) THEN timeout ELSE DEFAULT_TIMEOUT

timeoutEnabledAlways(timeout) == TRUE

\* _timeout > 0 && _timeout !== Infinity
timeoutEnabled(timeout) ==
  LET _timeout == OrDefault(timeout)
  IN  _timeout.k = "num" /\ _timeout.v > 0

(***************************************************************************)
(* The two closures send creates for a call, as functions of the call's    *)
(* record c.                                                               *)
(***************************************************************************)
\* the callback stored in this.responder[id]
ResponderCallbackNoClear(c, result, error) ==
  IF c.resolved THEN c
  ELSE [c EXCEPT !.resolved = TRUE,
                 !.cb = Append(@, Outcome(result, error))]

ResponderCallback(c, result, error) ==
  IF c.resolved THEN c
  ELSE [c EXCEPT !.resolved = TRUE,
                 !.timer = IF @ = "armed" THEN "cleared" ELSE @,
                 !.cb = Append(@, Outcome(result, error))]

\* the function handed to setTimeout
TimerCallbackNoFlag(c) ==
  [c EXCEPT !.timer = "fired",
            !.cb = Append(@, Outcome(Undefined, NewError("Timeout")))]

TimerCallback(c) ==
  IF c.resolved THEN [c EXCEPT !.timer = "fired"]
  ELSE [c EXCEPT !.timer = "fired",
                 !.resolved = TRUE,
                 !.cb = Append(@, Outcome(Undefined, NewError("Timeout")))]

(***************************************************************************)
(* The wire: what sender.send(channel, JSON.stringify(payload)) is given.  *)
(* A key whose value is undefined is left out by JSON.stringify; it is     *)
(* Undefined here.                                                         *)
(***************************************************************************)
Request(id, method) ==
  [id |-> id, method |-> method, result |-> Undefined, error |-> "null"]

ResponseError(id, code) ==
  [id |-> id, method |-> Undefined, result |-> Undefined, error |-> code]

ResponseSuccess(id, result) ==
  [id |-> id, method |-> Undefined, result |-> result, error |-> "null"]

\* beforeSend(sender, channel, payload)
beforeSend(sender, channel, payload) ==
  [to |-> sender, channel |-> channel, payload |-> payload]

Op(name, args) == [name |-> name, args |-> args]

(***************************************************************************)
(* scheduleRequest: events wait in this.scheduleQueue, under the id of     *)
(* their Sendable, for the next flush; anything else is sent at once.      *)
(***************************************************************************)
\* isEvent of './utils': an envelope without an id
isEvent(payload) == payload.id = Undefined

\* the `arguments` of scheduleRequest, as the queue keeps them
QueueItem(channel, sendable, payload) ==
  [to |-> sendable, channel |-> channel, payload |-> payload]

\* this.scheduleQueue[id] = this.scheduleQueue[id] || []; then push
Enqueue(queue, channel, sendable, payload) ==
  Put(queue, sendable,
      Append(IF HasOwn(queue, sendable) THEN queue[sendable] ELSE <<>>,
             QueueItem(channel, sendable, payload)))

\* setTimeout(this.flushQueue) when queueTick++ === 0
TimersAfterEnqueueAlways(tick, timers) == timers + 1

TimersAfterEnqueue(tick, timers) == IF tick = 0 THEN timers + 1 ELSE timers

scheduleRequestQueuesAll(channel, sendable, payload) ==
  [scheduleQueue |-> Enqueue(scheduleQueue, channel, sendable, payload),
   queueTick |-> queueTick + 1,
   flushTimers |-> TimersAfterEnqueue(queueTick, flushTimers),
   out |-> <<>>]

\* the queue, the tick, the timers and the sends after
\* scheduleRequest(channel, sendable, payload)
scheduleRequest(channel, sendable, payload) ==
  IF isEvent(payload)
  THEN [scheduleQueue |-> Enqueue(scheduleQueue, channel, sendable, payload),
        queueTick |-> queueTick + 1,
        flushTimers |-> TimersAfterEnqueue(queueTick, flushTimers),
        out |-> <<>>]
  ELSE [scheduleQueue |-> scheduleQueue,
        queueTick |-> queueTick,
        flushTimers |-> flushTimers,
        out |-> <<beforeSend(sendable, channel, payload)>>]

(***************************************************************************)
(* callHandler(target, method, params, timeout), through send with a       *)
(* callback.  t is the reading of Date.now() that getId takes.             *)
(***************************************************************************)
\* sender(undefined): the target is released
SenderReleased(target, method, timeout, id) ==
  /\ calls' = Append(calls,
       [target |-> target, method |-> method, timeout |-> timeout, id |-> id,
        binding |-> resolve[target], timer |-> "none", resolved |-> FALSE,
        cb |-> <<Outcome(Undefined, NewError("TargetReleased"))>>])
  /\ responder' = responder
  /\ out' = <<>>
  /\ UNCHANGED queueVars

\* sender(sendable): timer, Responder, then the request goes out
SenderResolved(target, method, timeout, id, sendable) ==
  /\ calls' = Append(calls,
       [target |-> target, method |-> method, timeout |-> timeout, id |-> id,
        binding |-> resolve[target],
        timer |-> IF timeoutEnabled(timeout) THEN "armed" ELSE "none",
        resolved |-> FALSE, cb |-> <<>>])
  /\ responder' = Put(responder, id, [call |-> Len(calls) + 1, name |-> method])
  /\ LET s == scheduleRequest(RPC_SEND_CHANNEL, sendable, Request(id, method))
     IN  /\ scheduleQueue' = s.scheduleQueue
         /\ queueTick' = s.queueTick
         /\ flushTimers' = s.flushTimers
         /\ out' = s.out

CallHandler(target, method, timeout, t) ==
  /\ Len(calls) < MaxCalls
  /\ now' = t
  /\ uid' = NextUid(uid)
  /\ LET id == getId(uid, t)
         sendable == getSender(target)
     IN  IF sendable = Undefined
         THEN SenderReleased(target, method, timeout, id)
         ELSE SenderResolved(target, method, timeout, id, sendable)
  /\ op' = Op("callHandler", <<target, method>>)
  /\ ret' = "Promise"
  /\ invoked' = <<>>
  /\ exc' = "none"
  /\ UNCHANGED <<resolve, handlers, pending, listeners>>

(***************************************************************************)
(* The timer of call c fires.                                              *)
(***************************************************************************)
RespondersAfterTimeoutKept(c) == responder

\* delete this.responder[id], reached only when the call was not resolved
RespondersAfterTimeout(c) ==
  IF calls[c].resolved THEN responder ELSE Delete(responder, calls[c].id)

TimerFire(c) ==
  /\ calls[c].timer = "armed"
  /\ calls' = [calls EXCEPT ![c] = TimerCallback(@)]
  /\ responder' = RespondersAfterTimeout(c)
  /\ op' = Op("timer", <<calls[c].id>>)
  /\ ret' = Undefined
  /\ invoked' = <<>>
  /\ exc' = "none"
  /\ out' = <<>>
  /\ UNCHANGED <<uid, now, resolve, handlers, pending, eventVars>>

(***************************************************************************)
(* handleResponse(res) with a payload that parses to a response carrying   *)
(* `id` and `body`.                                                        *)
(***************************************************************************)
\* the ids the peer may put in a response: those of the calls made so far
\* (pending or settled), one that is never issued, and the name of a
\* property every object inherits
ResponseIds ==
  {calls[c].id : c \in 1..Len(calls)} \cup {"0", "constructor"}

\* handleRPCResponse reads the body only once it has found a Responder:
\* for an id without one, one body stands for all
BodiesFor(id) ==
  IF HasOwn(responder, id) THEN ResponseBodies
  ELSE {[error |-> "null", result |-> "r1"]}

RespondersAfterResponseKept(id) == responder

\* delete this.responder[id]
RespondersAfterResponse(id) == Delete(responder, id)

HandleResponse(id, body) ==
  LET r == Lookup(responder, id)
  IN  /\ op' = Op("handleResponse", <<id, body.result, body.error>>)
      /\ ret' = Undefined
      /\ invoked' = <<>>
      /\ out' = <<>>
      /\ UNCHANGED <<uid, now, resolve, handlers, pending, eventVars>>
      /\ IF r = NoResponder
         THEN \* responder == null: warn and return
              /\ exc' = "none"
              /\ UNCHANGED <<calls, responder>>
         ELSE IF r = Inherited
         THEN \* responder.callback is not a function
              /\ exc' = "TypeError"
              /\ UNCHANGED <<calls, responder>>
         ELSE /\ exc' = "none"
              /\ calls' = [calls EXCEPT ![r.call] =
                   IF body.error # "null"
                   THEN ResponderCallback(@, Undefined, recoverFromResponse(body, r))
                   ELSE ResponderCallback(@, body.result, NoError)]
              /\ responder' = RespondersAfterResponse(id)

(***************************************************************************)
(* The transport binding: what a target resolves to changes (a window is   *)
(* created, closed, replaced).                                             *)
(***************************************************************************)
SetResolve(target, v) ==
  /\ v # resolve[target]
  /\ resolve' = [resolve EXCEPT ![target] = v]
  /\ op' = Op("setResolve", <<target, v>>)
  /\ ret' = Undefined
  /\ invoked' = <<>>
  /\ exc' = "none"
  /\ out' = <<>>
  /\ UNCHANGED <<uid, now, responder, calls, handlers, pending, eventVars>>

(***************************************************************************)
(* Target comparison.  Targets are compared by the id of the Sendable each *)
(* resolves to now; the targets modelled are truthy values.                *)
(***************************************************************************)
isTargetEqualByValue(a, b) == a = b

isTargetEqual(a, b) ==
  IF a = Undefined /\ b = Undefined THEN TRUE
  ELSE IF a = Undefined \/ b = Undefined THEN FALSE
  ELSE LET sendableA == getSender(a)
           sendableB == getSender(b)
       IN  sendableA # Undefined /\ sendableB # Undefined /\ sendableA = sendableB

\* a is the id of the Sendable a message came from
isSenderMatchTarget(a, target) ==
  IF target = Undefined THEN TRUE
  ELSE getSender(target) # Undefined /\ getSender(target) = a

(***************************************************************************)
(* The handler registry.  A method without a list and a method with an     *)
(* empty list behave alike in every operation; both are <<>> here.         *)
(***************************************************************************)
\* the callbacks the application registers
HandlerCallbacks == {"h1", "h2"}

Entry(target, callback) == [target |-> target, callback |-> callback]

\* `undefined` where an entry is expected
NoEntry == Entry(Undefined, Undefined)

\* Array.prototype.findIndex, given the set of the indices whose element
\* passes the test: the least of them, or 0 (for -1) when there is none
FindIndex(passing) ==
  IF passing = {} THEN 0
  ELSE CHOOSE i \in passing : \A j \in passing : i <= j

\* list.splice(idx, 1)
Splice(list, idx) ==
  [i \in 1..(Len(list) - 1) |-> IF i < idx THEN list[i] ELSE list[i + 1]]

\* the loop of getHandlerFor from index i on, with `handler` as found so far
RECURSIVE HandlerScan(_, _, _, _)
HandlerScan(list, i, handler, sender) ==
  IF i > Len(list) THEN handler
  ELSE IF list[i].target = Undefined
       THEN HandlerScan(list, i + 1, list[i], sender)
       ELSE IF isSenderMatchTarget(sender, list[i].target)
            THEN list[i]
            ELSE HandlerScan(list, i + 1, handler, sender)

\* a bug to tell apart: the first entry that is global or matches wins
getHandlerForFirstFit(method, sender) ==
  LET list == handlers[method]
      idx == FindIndex({i \in 1..Len(list) :
                          isSenderMatchTarget(sender, list[i].target)})
  IN  IF idx = 0 THEN NoEntry ELSE list[idx]

getHandlerFor(method, sender) ==
  HandlerScan(handlers[method], 1, NoEntry, sender)

\* the two checks that make registerHandler throw
RegisterConflict(method, target) ==
  \/ /\ target = Undefined
     /\ \E i \in 1..Len(handlers[method]) : handlers[method][i].target = Undefined
  \/ /\ target # Undefined
     /\ \E i \in 1..Len(handlers[method]) :
          isTargetEqual(target, handlers[method][i].target)

RegisterHandler(method, handler, target) ==
  /\ op' = Op("registerHandler", <<method, handler, target>>)
  /\ out' = <<>>
  /\ invoked' = <<>>
  /\ UNCHANGED <<uid, now, resolve, responder, calls, pending, eventVars>>
  /\ IF RegisterConflict(method, target)
     THEN /\ exc' = "Error"
          /\ ret' = Undefined
          /\ handlers' = handlers
     ELSE /\ Len(handlers[method]) < MaxEntries
          /\ exc' = "none"
          /\ ret' = "disposer"
          /\ handlers' = [handlers EXCEPT ![method] = Append(@, Entry(target, handler))]

\* also what the disposer registerHandler returned does
UnregisterHandler(method, target) ==
  LET list == handlers[method]
      idx == FindIndex({i \in 1..Len(list) : isTargetEqual(list[i].target, target)})
  IN  /\ op' = Op("unregisterHandler", <<method, target>>)
      /\ exc' = "none"
      /\ out' = <<>>
      /\ invoked' = <<>>
      /\ UNCHANGED <<uid, now, resolve, responder, calls, pending, eventVars>>
      /\ IF idx # 0
         THEN /\ handlers' = [handlers EXCEPT ![method] = Splice(@, idx)]
              /\ ret' = "true"
         ELSE /\ handlers' = handlers
              /\ ret' = "false"

(***************************************************************************)
(* handleRequest(sender, res) with a payload that parses to a Request      *)
(* {id, method}.  A handler returns a promise; its settlement is a later   *)
(* step.                                                                   *)
(***************************************************************************)
\* the ids the peer puts in its requests; a peer does not reuse the id of a
\* request it still awaits the response of
RequestIds == {"q1", "q2"}

HandleRequest(sender, id, method) ==
  LET handler == getHandlerFor(method, sender)
  IN  /\ op' = Op("handleRequest", <<sender, id, method>>)
      /\ exc' = "none"
      /\ ret' = Undefined
      /\ UNCHANGED <<uid, now, resolve, responder, calls, handlers, eventVars>>
      /\ IF handler = NoEntry
         THEN /\ out' = <<beforeSend(sender, RPC_RECEIVE_CHANNEL,
                                     ResponseError(id, "NotFound"))>>
              /\ invoked' = <<>>
              /\ pending' = pending
         ELSE /\ Cardinality(pending) < MaxPending
              /\ [id |-> id, sender |-> sender] \notin pending
              /\ out' = <<>>
              /\ invoked' = <<handler>>
              /\ pending' = pending \cup {[id |-> id, sender |-> sender]}

\* how a handler's promise settles: with a result, with a JSONRPCError, or
\* with any other value (a string here, or null)
HandlerOutcomes ==
  { [kind |-> "result", v |-> "r1"],
    [kind |-> "JSONRPCError", v |-> "E42"],
    [kind |-> "other", v |-> "oops"],
    [kind |-> "other", v |-> "null"] }

\* the .catch callback reads err.message once err is found not to be a
\* JSONRPCError; that read throws a TypeError when err is null or undefined
ReadsMessage(outcome) ==
  ~(outcome.kind = "other" /\ outcome.v \in {"null", Undefined})

\* the response the .then or the .catch callback builds
SettleResponse(p, outcome) ==
  CASE outcome.kind = "result" -> ResponseSuccess(p.id, outcome.v)
    [] outcome.kind = "JSONRPCError" -> ResponseError(p.id, outcome.v)
    [] OTHER -> ResponseError(p.id, "UnKnown")

\* the .then and .catch callbacks of handleRPCRequest.  An exception in the
\* .catch callback rejects the promise .catch returned, which nothing
\* observes: no response is sent.
HandlerSettle(p, outcome) ==
  /\ p \in pending
  /\ pending' = pending \ {p}
  /\ IF ReadsMessage(outcome)
     THEN /\ out' = <<beforeSend(p.sender, RPC_RECEIVE_CHANNEL,
                                 SettleResponse(p, outcome))>>
          /\ exc' = "none"
     ELSE /\ out' = <<>>
          /\ exc' = "TypeError"
  /\ op' = Op("handlerSettle", <<p.sender, p.id, outcome.kind, outcome.v>>)
  /\ ret' = Undefined
  /\ invoked' = <<>>
  /\ UNCHANGED <<uid, now, resolve, responder, calls, handlers, eventVars>>

(***************************************************************************)
(* The listener registry: on, off, removeAllListener.  As with handlers, a *)
(* method without a list and a method with an empty list behave alike.     *)
(* Each operation is first a function of the registry, since a listener    *)
(* may call it while an event is being dispatched.                         *)
(***************************************************************************)
\* the callbacks the application subscribes
EventCallbacks == {"cb1", "cb2"}

\* entries the listener registry may hold, over all methods
MaxListeners == 3

ListenerCount(ls) == Len(ls["m"]) + Len(ls["n"])

\* this.listeners after on(method, callback, target)
listenersAfterOn(ls, method, callback, target) ==
  [ls EXCEPT ![method] = Append(@, Entry(target, callback))]

\* the findIndex of off
offIndex(list, callback, target) ==
  FindIndex({i \in 1..Len(list) :
               list[i].callback = callback /\ isTargetEqual(list[i].target, target)})

\* this.listeners after off(method, callback, target)
listenersAfterOff(ls, method, callback, target) ==
  LET idx == offIndex(ls[method], callback, target)
  IN  IF idx # 0 THEN [ls EXCEPT ![method] = Splice(@, idx)] ELSE ls

removedByRemoveAllByValue(target, l) == l.target = target

\* the test of removeAllListener's inner loop: l is left out of the new list
removedByRemoveAll(target, l) == isTargetEqual(target, l.target)

\* this.listeners after removeAllListener(target)
listenersAfterRemoveAll(ls, target) ==
  IF target = Undefined THEN [m \in Methods |-> <<>>]
  ELSE [m \in Methods |->
          SelectSeq(ls[m], LAMBDA l : ~removedByRemoveAll(target, l))]

On(method, callback, target) ==
  /\ ListenerCount(listeners) < MaxListeners
  /\ listeners' = listenersAfterOn(listeners, method, callback, target)
  /\ op' = Op("on", <<method, callback, target>>)
  /\ ret' = "disposer"
  /\ exc' = "none"
  /\ out' = <<>>
  /\ invoked' = <<>>
  /\ UNCHANGED <<uid, now, resolve, responder, calls, handlers, pending, queueVars>>

\* also what the disposer on returned does
Off(method, callback, target) ==
  /\ listeners' = listenersAfterOff(listeners, method, callback, target)
  /\ op' = Op("off", <<method, callback, target>>)
  /\ ret' = IF offIndex(listeners[method], callback, target) # 0
            THEN "true" ELSE "false"
  /\ exc' = "none"
  /\ out' = <<>>
  /\ invoked' = <<>>
  /\ UNCHANGED <<uid, now, resolve, responder, calls, handlers, pending, queueVars>>

RemoveAllListener(target) ==
  /\ listeners' = listenersAfterRemoveAll(listeners, target)
  /\ op' = Op("removeAllListener", <<target>>)
  /\ ret' = Undefined
  /\ exc' = "none"
  /\ out' = <<>>
  /\ invoked' = <<>>
  /\ UNCHANGED <<uid, now, resolve, responder, calls, handlers, pending, queueVars>>

(***************************************************************************)
(* handleRequest(sender, res) with a payload that parses to an Event, or   *)
(* to an array of Events.  The listeners run inside the dispatch; what     *)
(* each callback does to the registry when invoked is an input (behave).   *)
(***************************************************************************)
\* params values
Params == {"x1", "x2"}

\* the payload of an event: id is undefined
Event(method, params) == [id |-> Undefined, method |-> method, params |-> params]

\* a JSON array of envelopes
Batch(envelopes) == [array |-> envelopes]

\* Array.isArray
IsArray(payload) == "array" \in DOMAIN payload

\* what a listener does when invoked: nothing, call its own disposer,
\* subscribe one more listener to the method, or removeAllListener()
Effects == {"none", "dispose", "on", "removeAll"}

\* i.callback(params, sender.id)
Invocation(entry, params) ==
  [target |-> entry.target, callback |-> entry.callback, params |-> params]

\* this.listeners after the callback of entry has run
listenersAfterCallback(effect, ls, method, entry) ==
  CASE effect = "dispose" -> listenersAfterOff(ls, method, entry.callback, entry.target)
    [] effect = "on" -> listenersAfterOn(ls, method, "cb2", Undefined)
    [] effect = "removeAll" -> listenersAfterRemoveAll(ls, Undefined)
    [] OTHER -> ls

\* forEach over the list itself: it visits index i of the list as it is by
\* then, and skips an index the list no longer has
forEachItemOfList(snapshot, ls, method, i) ==
  IF i <= Len(ls[method]) THEN ls[method][i] ELSE NoEntry

\* forEach over this.listeners[method].slice(0): the item visited at index i
forEachItem(snapshot, ls, method, i) == snapshot[i]

\* the forEach of the event branch from index i on; ls is this.listeners as
\* the callbacks run so far have left it
RECURSIVE DispatchFrom(_, _, _, _, _, _)
DispatchFrom(snapshot, i, ls, sender, event, behave) ==
  IF i > Len(snapshot) THEN [listeners |-> ls, invoked |-> <<>>]
  ELSE LET item == forEachItem(snapshot, ls, event.method, i)
       IN  IF item # NoEntry /\ isSenderMatchTarget(sender, item.target)
           THEN LET after == listenersAfterCallback(behave[item.callback], ls,
                                                    event.method, item)
                    rest == DispatchFrom(snapshot, i + 1, after, sender, event, behave)
                IN  [listeners |-> rest.listeners,
                     invoked |-> <<Invocation(item, event.params)>> \o rest.invoked]
           ELSE DispatchFrom(snapshot, i + 1, ls, sender, event, behave)

\* req.forEach(r => this.handleRPCRequest(sender, r)) from index k on
RECURSIVE DispatchAll(_, _, _, _, _)
DispatchAll(events, k, ls, sender, behave) ==
  IF k > Len(events) THEN [listeners |-> ls, invoked |-> <<>>]
  ELSE LET first == DispatchFrom(ls[events[k].method], 1, ls, sender, events[k], behave)
           rest == DispatchAll(events, k + 1, first.listeners, sender, behave)
       IN  [listeners |-> rest.listeners, invoked |-> first.invoked \o rest.invoked]

\* the payloads the peer delivers: an Event, or an array of one or two
InboundEvents ==
  LET E == {Event(m, p) : m \in Methods, p \in Params}
  IN  E \cup {Batch(<<e>>) : e \in E} \cup {Batch(<<e, f>>) : e \in E, f \in E}

HandleEvent(sender, payload, behave) ==
  LET events == IF IsArray(payload) THEN payload.array ELSE <<payload>>
      r == DispatchAll(events, 1, listeners, sender, behave)
  IN  /\ ListenerCount(r.listeners) <= MaxListeners
      /\ listeners' = r.listeners
      /\ invoked' = r.invoked
      /\ op' = Op("handleEvent", <<sender, payload, behave>>)
      /\ ret' = Undefined
      /\ exc' = "none"
      /\ out' = <<>>
      /\ UNCHANGED <<uid, now, resolve, responder, calls, handlers, pending, queueVars>>

(***************************************************************************)
(* emit(target, method, params), through send without a callback, and the  *)
(* flush of the outbound queue.                                            *)
(***************************************************************************)
\* events the outbound queue may hold
MaxQueued == 3

\* the number of events in the queue
QueuedCount(queue) ==
  (IF HasOwn(queue, "w1") THEN Len(queue["w1"]) ELSE 0)
    + (IF HasOwn(queue, "w2") THEN Len(queue["w2"]) ELSE 0)

uidAfterEmitAllocating(u) == NextUid(u)

\* const id = isEvent ? undefined : this.getId(): an event takes no id
uidAfterEmit(u) == u

Emit(target, method, params) ==
  LET sendable == getSender(target)
      s == scheduleRequest(RPC_SEND_CHANNEL, sendable, Event(method, params))
  IN  /\ op' = Op("emit", <<target, method, params>>)
      /\ ret' = Undefined
      /\ exc' = "none"
      /\ invoked' = <<>>
      /\ uid' = uidAfterEmit(uid)
      /\ UNCHANGED <<now, resolve, responder, calls, handlers, listeners, pending>>
      /\ IF sendable = Undefined
         THEN \* sender(undefined) with isEvent: return false
              /\ out' = <<>>
              /\ UNCHANGED queueVars
         ELSE /\ QueuedCount(scheduleQueue) < MaxQueued
              /\ scheduleQueue' = s.scheduleQueue
              /\ queueTick' = s.queueTick
              /\ flushTimers' = s.flushTimers
              /\ out' = s.out

\* for (const id in queue) visits integer keys in ascending order: the
\* Sendable ids in that order
IdentityOrder == <<"w1", "w2">>

FlushSendAlwaysArray(items) ==
  beforeSend(items[1].to, items[1].channel,
             Batch([i \in 1..Len(items) |-> items[i].payload]))

\* the send flushQueue makes for the events queued under one id
FlushSend(items) ==
  IF Len(items) > 1
  THEN beforeSend(items[1].to, items[1].channel,
                  Batch([i \in 1..Len(items) |-> items[i].payload]))
  ELSE beforeSend(items[1].to, items[1].channel, items[1].payload)

\* the sends of the for-in loop from the k-th id on
RECURSIVE FlushFrom(_, _)
FlushFrom(queue, k) ==
  IF k > Len(IdentityOrder) THEN <<>>
  ELSE (IF HasOwn(queue, IdentityOrder[k])
        THEN <<FlushSend(queue[IdentityOrder[k]])>> ELSE <<>>)
         \o FlushFrom(queue, k + 1)

\* the timer scheduleRequest set runs this.flushQueue
FlushQueue ==
  /\ flushTimers > 0
  /\ flushTimers' = flushTimers - 1
  /\ queueTick' = 0
  /\ scheduleQueue' = <<>>
  /\ out' = FlushFrom(scheduleQueue, 1)
  /\ op' = Op("flushQueue", <<>>)
  /\ ret' = Undefined
  /\ exc' = "none"
  /\ invoked' = <<>>
  /\ UNCHANGED <<uid, now, resolve, responder, calls, handlers, listeners, pending>>

(***************************************************************************)
(* handleResponse(res) and handleRequest(sender, res) with a payload that  *)
(* is not JSON text.  beforeReceive is JSON.parse(payload), which throws a *)
(* SyntaxError; neither beforeReceive nor its two callers catch it.        *)
(***************************************************************************)
\* a payload JSON.parse rejects
Malformed == "{malformed"

\* what leaves handleResponse / handleRequest when beforeReceive throws
beforeReceiveThrown == "SyntaxError"

HandleResponseMalformed ==
  /\ op' = Op("handleResponse", <<Malformed>>)
  /\ exc' = beforeReceiveThrown
  /\ ret' = Undefined
  /\ out' = <<>>
  /\ invoked' = <<>>
  /\ UNCHANGED <<uid, now, resolve, responder, calls, handlers, pending, eventVars>>

HandleRequestMalformed(sender) ==
  /\ op' = Op("handleRequest", <<sender, Malformed>>)
  /\ exc' = beforeReceiveThrown
  /\ ret' = Undefined
  /\ out' = <<>>
  /\ invoked' = <<>>
  /\ UNCHANGED <<uid, now, resolve, responder, calls, handlers, pending, eventVars>>

(***************************************************************************)
(* The state after construction.                                           *)
(***************************************************************************)
Init ==
  /\ uid = 0
  /\ now = MaxNow - 1
  /\ resolve = [t \in Targets |-> Undefined]
  /\ responder = <<>>
  /\ calls = <<>>
  /\ handlers = [m \in Methods |-> <<>>]
  /\ listeners = [m \in Methods |-> <<>>]
  /\ scheduleQueue = <<>>
  /\ queueTick = 0
  /\ flushTimers = 0
  /\ pending = {}
  /\ op = Op("new", <<>>)
  /\ exc = "none"
  /\ ret = Undefined
  /\ out = <<>>
  /\ invoked = <<>>

(***************************************************************************)
(* Calls, responses and timers.                                            *)
(***************************************************************************)
\* the calls of this part all go to one target, with one method name, and
\* the clock does not step back between them
NextCall ==
  \/ \E timeout \in TimeoutArgs, t \in NowRange :
       t >= now /\ CallHandler("A", "m", timeout, t)
  \/ \E c \in 1..Len(calls) : TimerFire(c)
  \/ \E id \in ResponseIds : \E body \in BodiesFor(id) : HandleResponse(id, body)
  \/ \E v \in {"w1", Undefined, Throws} : SetResolve("A", v)

SpecCall == Init /\ [][NextCall]_vars

(***************************************************************************)
(* The ids of pending calls.  The engine has made and settled some calls   *)
(* already, so uid starts anywhere up to StartUid and its rendering grows  *)
(* by a digit during a run; the target resolves; the clock starts anywhere *)
(* in the wide range and may step back.                                    *)
(***************************************************************************)
StartUid == 9

InitIds ==
  /\ uid \in 0..StartUid
  /\ now \in WideNowRange
  /\ resolve = [t \in Targets |-> "w1"]
  /\ responder = <<>>
  /\ calls = <<>>
  /\ handlers = [m \in Methods |-> <<>>]
  /\ listeners = [m \in Methods |-> <<>>]
  /\ scheduleQueue = <<>>
  /\ queueTick = 0
  /\ flushTimers = 0
  /\ pending = {}
  /\ op = Op("new", <<>>)
  /\ exc = "none"
  /\ ret = Undefined
  /\ out = <<>>
  /\ invoked = <<>>

NextIds ==
  \/ \E t \in WideNowRange :
       ClockReading(t) /\ CallHandler("A", "m", [k |-> "undefined", v |-> 0], t)
  \/ \E c \in 1..Len(calls) : TimerFire(c)
  \/ \E c \in 1..Len(calls) :
       HandleResponse(calls[c].id, [error |-> "null", result |-> "r1"])

SpecIds == InitIds /\ [][NextIds]_vars

(***************************************************************************)
(* The handler registry and the dispatch of requests.                      *)
(***************************************************************************)
\* handlers are registered for method "m"; requests come for both methods;
\* handlers settle with a result
NextRegistry ==
  \/ \E handler \in HandlerCallbacks, target \in Targets \cup {Undefined} :
       RegisterHandler("m", handler, target)
  \/ \E target \in Targets \cup {Undefined} : UnregisterHandler("m", target)
  \/ \E target \in Targets, v \in ResolveValues : SetResolve(target, v)
  \/ \E sender \in Identities, id \in RequestIds, method \in Methods :
       HandleRequest(sender, id, method)
  \/ \E p \in pending : HandlerSettle(p, [kind |-> "result", v |-> "r1"])

SpecRegistry == Init /\ [][NextRegistry]_vars

(***************************************************************************)
(* The listener registry and the dispatch of events.  The engine is in     *)
(* use: a handler is registered, a call to A is pending and an event for   *)
(* A waits in the outbound queue.                                          *)
(***************************************************************************)
InitListeners ==
  /\ uid = 1
  /\ now = MaxNow
  /\ resolve = [t \in Targets |-> IF t = "A" THEN "w1" ELSE "w2"]
  /\ responder = Put(<<>>, getId(0, MaxNow), [call |-> 1, name |-> "m"])
  /\ calls = <<[target |-> "A", method |-> "m", timeout |-> [k |-> "inf", v |-> 0],
                id |-> getId(0, MaxNow), binding |-> "w1", timer |-> "none",
                resolved |-> FALSE, cb |-> <<>>]>>
  /\ handlers = [m \in Methods |-> IF m = "m" THEN <<Entry(Undefined, "h1")>> ELSE <<>>]
  /\ listeners = [m \in Methods |-> <<>>]
  /\ scheduleQueue = Enqueue(<<>>, RPC_SEND_CHANNEL, "w1", Event("m", "x1"))
  /\ queueTick = 1
  /\ flushTimers = 1
  /\ pending = {}
  /\ op = Op("emit", <<"A", "m", "x1">>)
  /\ exc = "none"
  /\ ret = Undefined
  /\ out = <<>>
  /\ invoked = <<>>

\* A may be released, B resolves to either identity
NextListeners ==
  \/ \E callback \in EventCallbacks, target \in Targets \cup {Undefined} :
       On("m", callback, target)
  \/ On("n", "cb1", Undefined)
  \/ \E callback \in EventCallbacks, target \in Targets \cup {Undefined} :
       Off("m", callback, target)
  \/ Off("n", "cb1", Undefined)
  \/ \E target \in Targets \cup {Undefined} : RemoveAllListener(target)
  \/ \E v \in {"w1", Undefined} : SetResolve("A", v)
  \/ \E v \in Identities : SetResolve("B", v)

SpecListeners == InitListeners /\ [][NextListeners]_vars

(***************************************************************************)
(* The dispatch of events to listeners that change the registry.           *)
(***************************************************************************)
\* what the listeners of this part do when invoked: cb1 anything, cb2
\* nothing, or cb2 its own disposer
Behaviours ==
  {[c \in EventCallbacks |-> IF c = "cb1" THEN e ELSE "none"] : e \in Effects}
    \cup {[c \in EventCallbacks |-> IF c = "cb2" THEN "dispose" ELSE "none"]}

\* the payloads of this part: an Event, an array of one, an array of two
DispatchEvents ==
  {Event(m, "x1") : m \in Methods}
    \cup {Batch(<<Event("m", "x1")>>)}
    \cup {Batch(<<Event("m", "x1"), Event(n, "x2")>>) : n \in Methods}

\* events come from w1; A may be released, B resolves elsewhere
NextDispatch ==
  \/ \E target \in Targets \cup {Undefined} : On("m", "cb1", target)
  \/ On("m", "cb2", Undefined)
  \/ On("n", "cb1", Undefined)
  \/ \E v \in {"w1", Undefined} : SetResolve("A", v)
  \/ \E payload \in DispatchEvents, behave \in Behaviours :
       HandleEvent("w1", payload, behave)

SpecDispatch == InitListeners /\ [][NextDispatch]_vars

(***************************************************************************)
(* The outbound queue: emit and flush.                                     *)
(***************************************************************************)
NextQueue ==
  \/ \E target \in Targets, method \in Methods, params \in Params :
       Emit(target, method, params)
  \/ FlushQueue
  \/ \E v \in {"w1", Undefined, Throws} : SetResolve("A", v)
  \/ \E v \in Identities : SetResolve("B", v)

SpecQueue == Init /\ [][NextQueue]_vars

\* a timer that was set runs
SpecQueueFair == SpecQueue /\ WF_vars(FlushQueue)

(***************************************************************************)
(* All traffic together: calls and their responses, events and flushes,    *)
(* inbound requests and their responses, payloads that do not parse.       *)
(***************************************************************************)
\* calls and events go to A, which may be released; one global handler
\* serves "m"; requests come from w1, one at a time
NextTraffic ==
  \/ CallHandler("A", "m", [k |-> "inf", v |-> 0], MaxNow)
  \/ \E c \in 1..Len(calls) :
       HandleResponse(calls[c].id, [error |-> "null", result |-> "r1"])
  \/ \E params \in Params : Emit("A", "m", params)
  \/ FlushQueue
  \/ RegisterHandler("m", "h1", Undefined)
  \/ \E method \in Methods : HandleRequest("w1", "q1", method)
  \/ \E p \in pending, outcome \in HandlerOutcomes : HandlerSettle(p, outcome)
  \/ \E v \in {"w1", Undefined} : SetResolve("A", v)
  \/ HandleResponseMalformed
  \/ HandleRequestMalformed("w1")

SpecTraffic == Init /\ [][NextTraffic]_vars

(***************************************************************************)
(* Words used by the properties below.                                     *)
(***************************************************************************)
Calls == 1..Len(calls)

\* what the caller's callback is to receive for the response the last step
\* delivered: its result, or an error with its code
DeliveredOutcome(method) ==
  IF op'.args[3] # "null"
  THEN [result |-> Undefined,
        error |-> [code |-> op'.args[3], methodName |-> method]]
  ELSE [result |-> op'.args[2],
        error |-> [code |-> "null", methodName |-> Undefined]]

TimeoutOutcome ==
  [result |-> Undefined, error |-> [code |-> "Timeout", methodName |-> Undefined]]

TargetReleasedOutcome ==
  [result |-> Undefined,
   error |-> [code |-> "TargetReleased", methodName |-> Undefined]]

\* getSendable gave the call a Sendable
Bound(c) == calls[c].binding \in Identities

\* C1: a caller's callback is invoked at most once; a response delivered
\* while the call's entry exists (before its timer fired) invokes it with
\* that response's result or error, cancels the timer and removes the
\* entry; a cancelled timer never fires.
C1_SettledOnceByResponse ==
  /\ [](\A c \in Calls : Len(calls[c].cb) <= 1)
  /\ [][ /\ \A c \in Calls : calls[c].timer = "cleared" => calls'[c].timer = "cleared"
         /\ op'.name = "handleResponse"
            => \A c \in Calls :
                 (/\ calls[c].id = op'.args[1]
                  /\ HasOwn(responder, calls[c].id)
                  /\ responder[calls[c].id].call = c)
                 => /\ calls'[c].cb = <<DeliveredOutcome(calls[c].method)>>
                    /\ calls'[c].timer \in {"none", "cleared"}
                    /\ ~HasOwn(responder', calls[c].id)
       ]_vars

\* a response settled a call whose timer was running, and the same
\* response was then delivered once more
C1_Witness ==
  \E c \in Calls :
    /\ calls[c].timer = "cleared"
    /\ Len(calls[c].cb) = 1
    /\ calls[c].cb[1].result = "r1"
    /\ op.name = "handleResponse" /\ op.args[1] = calls[c].id
    /\ ~HasOwn(responder, calls[c].id)

\* C2: when the timer of an unsettled call fires, the callback receives a
\* Timeout error and the entry is removed; a call whose timer fired has been
\* called back exactly once, with Timeout; a response for its id delivered
\* afterwards invokes nothing and throws nothing.
C2_TimeoutSettlesOnce ==
  /\ [](\A c \in Calls : calls[c].timer = "fired" => calls[c].cb = <<TimeoutOutcome>>)
  /\ [][ /\ op'.name = "timer"
            => \A c \in Calls :
                 (/\ calls[c].id = op'.args[1]
                  /\ calls[c].timer = "armed" /\ calls[c].cb = <<>>)
                 => /\ calls'[c].cb = <<TimeoutOutcome>>
                    /\ ~HasOwn(responder', calls[c].id)
         /\ op'.name = "handleResponse"
            => \A c \in Calls :
                 (calls[c].id = op'.args[1] /\ calls[c].timer = "fired")
                 => /\ calls'[c].cb = calls[c].cb
                    /\ responder' = responder
                    /\ exc' = "none"
       ]_vars

\* a response arrived for a call that had timed out
C2_Witness ==
  \E c \in Calls :
    /\ calls[c].timer = "fired"
    /\ calls[c].cb = <<TimeoutOutcome>>
    /\ op.name = "handleResponse" /\ op.args[1] = calls[c].id

\* C3: a response whose id has no correlation entry invokes no callback,
\* throws nothing and changes neither the correlation table nor the
\* registries nor the outbound queue.
C3_UnknownIdDropped ==
  [][ (op'.name = "handleResponse" /\ ~HasOwn(responder, op'.args[1]))
      => /\ exc' = "none"
         /\ calls' = calls
         /\ responder' = responder
         /\ handlers' = handlers
         /\ UNCHANGED eventVars
    ]_vars

\* C4: a call whose target does not resolve (getSendable returns nothing
\* or throws) is called back at once with TargetReleased; it has no entry
\* in the correlation table, no timer, and no step ever sends a message
\* carrying its id.
C4_ReleasedTargetFailsAtOnce ==
  \A c \in Calls :
    calls[c].binding \in {Undefined, Throws}
    => /\ calls[c].cb = <<TargetReleasedOutcome>>
       /\ calls[c].timer = "none"
       /\ \A id \in DOMAIN responder : responder[id].call # c
       /\ \A i \in 1..Len(out) : out[i].payload.id # calls[c].id

\* a call was made while getSendable threw for its target
C4_Witness ==
  \E c \in Calls :
    /\ calls[c].binding = Throws
    /\ calls[c].cb = <<TargetReleasedOutcome>>
    /\ op.name = "callHandler"

\* the call the last step made found its target released
ReleasedCallStep ==
  /\ op'.name = "callHandler"
  /\ Len(calls') = Len(calls) + 1
  /\ calls'[Len(calls')].binding \in {Undefined, Throws}

\* C5 as stated: a call whose target does not resolve leaves uid as it was.
C5_NoIdAllocated == [][ReleasedCallStep => uid' = uid]_vars

\* C5 as amended: a call whose target does not resolve still takes an id:
\* uid advances by one, the id taken is the one made of the new uid and the
\* clock, and that id is not entered in the correlation table.
C5_IdAllocatedNotRegistered ==
  [][ ReleasedCallStep
      => /\ uid' = (uid + 1) % MAX_SAFE_INTEGER
         /\ calls'[Len(calls')].id = Decimal(uid') \o Decimal(now')
         /\ responder' = responder
    ]_vars

\* a successful call follows a failed one, and carries the second id
C5_Witness ==
  /\ Len(calls) = 2
  /\ calls[1].binding = Undefined
  /\ Bound(2)
  /\ uid = 2
  /\ HasOwn(responder, calls[2].id)

\* C6: a timer is started only for a timeout argument that is positive and
\* finite, or omitted; a call with timeout 0 or Infinity has no timer and is
\* never called back with Timeout.
C6_TimerOnlyForPositiveFinite ==
  \A c \in Calls :
    /\ calls[c].timer # "none"
       => \/ calls[c].timeout.k = "undefined"
          \/ calls[c].timeout.k = "num" /\ calls[c].timeout.v > 0
    /\ (\/ calls[c].timeout.k = "inf"
        \/ calls[c].timeout.k = "num" /\ calls[c].timeout.v = 0)
       => /\ calls[c].timer = "none"
          /\ \A i \in 1..Len(calls[c].cb) : calls[c].cb[i].error.code # "Timeout"

\* a call is pending: it was sent and its callback has not been invoked
Pending(c) == Bound(c) /\ calls[c].cb = <<>>

\* C7: pending calls have pairwise distinct ids, and each pending call
\* still owns the correlation entry of its id.
C7_PendingIdsDistinct ==
  \A c \in Calls :
    Pending(c)
    => /\ \A d \in Calls : (Pending(d) /\ d # c) => calls[d].id # calls[c].id
       /\ HasOwn(responder, calls[c].id)
       /\ responder[calls[c].id].call = c

\* two calls are pending at once; the second was made after uid's
\* rendering grew by a digit and after the clock stepped back
C7_Witness ==
  /\ Len(calls) = 2
  /\ Pending(1) /\ Pending(2)
  /\ uid = 10
  /\ calls[2].id = "108"
  /\ calls[1].id = "99"

\* the list of method holds a target-less entry
HasGlobal(method) ==
  \E i \in 1..Len(handlers[method]) : handlers[method][i].target = Undefined

\* the list of method holds an entry whose target resolves, now, to the
\* Sendable that target resolves to
HasSameIdentity(method, target) ==
  /\ resolve[target] \in Identities
  /\ \E i \in 1..Len(handlers[method]) :
       /\ handlers[method][i].target # Undefined
       /\ resolve[handlers[method][i].target] = resolve[target]

\* C8: registerHandler throws and leaves the registry as it was when a
\* global entry exists and no target is given, or when an entry resolving to
\* the same identity exists; a registration for a target resolving to an
\* identity no entry resolves to, and a global registration next to scoped
\* entries only, succeed and add their entry behind the ones present.
C8_RegisterConflicts ==
  [][ op'.name = "registerHandler"
      => LET method == op'.args[1]
             handler == op'.args[2]
             target == op'.args[3]
         IN  IF \/ target = Undefined /\ HasGlobal(method)
                \/ target # Undefined /\ HasSameIdentity(method, target)
             THEN exc' = "Error" /\ handlers' = handlers
             ELSE (\/ target = Undefined
                   \/ resolve[target] \in Identities)
                  => /\ exc' = "none"
                     /\ handlers' = [handlers EXCEPT ![method] =
                          Append(@, [target |-> target, callback |-> handler])]
    ]_vars

\* a registration was refused for a target that is not the target of any
\* entry but resolves to the identity one of them resolves to, while a
\* global entry and a scoped entry coexist
C8_Witness ==
  /\ op.name = "registerHandler"
  /\ exc = "Error"
  /\ op.args[3] # Undefined
  /\ Len(handlers[op.args[1]]) = 2
  /\ \A i \in 1..2 : handlers[op.args[1]][i].target # op.args[3]
  /\ \E i \in 1..2 : handlers[op.args[1]][i].target = Undefined

\* C9: every method has at most one global entry and at most one entry per
\* identity its targets resolve to.
C9_OneEntryPerIdentity ==
  \A method \in Methods :
    \A i, j \in 1..Len(handlers[method]) :
      i # j
      => LET a == handlers[method][i].target
             b == handlers[method][j].target
         IN  /\ ~(a = Undefined /\ b = Undefined)
             /\ (a # Undefined /\ b # Undefined /\ resolve[a] \in Identities)
                => resolve[a] # resolve[b]

C11_OneResponsePerRequest ==
  [][ op'.name = "handlerSettle"
      => LET sender == op'.args[1]
             id == op'.args[2]
             kind == op'.args[3]
             v == op'.args[4]
         IN  /\ Len(out') = 1
             /\ out'[1].to = sender
             /\ out'[1].channel = RPC_RECEIVE_CHANNEL
             /\ out'[1].payload.id = id
             /\ kind = "result"
                => out'[1].payload.result = v /\ out'[1].payload.error = "null"
             /\ kind = "JSONRPCError" => out'[1].payload.error = v
             /\ kind = "other" => out'[1].payload.error = "UnKnown"
             /\ [id |-> id, sender |-> sender] \notin pending'
    ]_vars

\* two targets are equal by resolved identity: both are unset, or both
\* resolve, now, to one Sendable
EqualByIdentity(a, b) ==
  \/ a = Undefined /\ b = Undefined
  \/ /\ a # Undefined /\ b # Undefined
     /\ resolve[a] \in Identities
     /\ resolve[a] = resolve[b]

\* the indices of list whose entry off(callback, target) is to match
OffMatches(list, callback, target) ==
  {i \in 1..Len(list) :
     list[i].callback = callback /\ EqualByIdentity(list[i].target, target)}

\* list without its element at index i
Without(list, i) == SubSeq(list, 1, i - 1) \o SubSeq(list, i + 1, Len(list))

\* C13, off in general: off removes the first entry with the same callback
\* and a target equal by resolved identity, leaves the rest in order and
\* returns true; with no such entry it returns false and changes nothing.
C13_OffRemovesFirstMatch ==
  [][ op'.name = "off"
      => LET method == op'.args[1]
             matches == OffMatches(listeners[method], op'.args[2], op'.args[3])
         IN  IF matches = {}
             THEN ret' = "false" /\ listeners' = listeners
             ELSE /\ ret' = "true"
                  /\ \E i \in matches :
                       /\ \A j \in matches : i <= j
                       /\ listeners' = [listeners EXCEPT ![method] = Without(@, i)]
    ]_vars

\* C13: on appends its entry; off (or the disposer) called with the same
\* arguments right after an on returns true and leaves the method's list
\* exactly as it was before the on.
C13_OnThenOffRestores ==
  [][ /\ op'.name = "on"
         => listeners' = [listeners EXCEPT ![op'.args[1]] =
              Append(@, [target |-> op'.args[3], callback |-> op'.args[2]])]
      /\ (op.name = "on" /\ op'.name = "off" /\ op'.args = op.args)
         => LET list == listeners[op.args[1]]
            IN  /\ ret' = "true"
                /\ listeners' = [listeners EXCEPT ![op.args[1]] =
                     SubSeq(list, 1, Len(list) - 1)]
    ]_vars

\* list without the entries scoped to a target that resolves to the
\* Sendable target resolves to
KeptByRemoveAll(list, target) ==
  SelectSeq(list, LAMBDA l : ~(/\ l.target # Undefined
                               /\ resolve[target] \in Identities
                               /\ resolve[l.target] = resolve[target]))

\* C14: removeAllListener() empties the list of every method;
\* removeAllListener(target) removes from every list the entries whose
\* target resolves to the identity target resolves to and keeps the others
\* (wildcards, other identities) in their order; neither changes the
\* handler registry, the correlation table or the outbound queue.
C14_RemoveAllListener ==
  [][ op'.name = "removeAllListener"
      => LET target == op'.args[1]
         IN  /\ \A m \in Methods :
                  listeners'[m] = IF target = Undefined THEN <<>>
                                  ELSE KeptByRemoveAll(listeners[m], target)
             /\ handlers' = handlers
             /\ responder' = responder
             /\ calls' = calls
             /\ UNCHANGED queueVars
    ]_vars

\* removeAllListener(A) has left a wildcard entry and, behind it, an entry
\* scoped to B, which resolves elsewhere; handler, pending call and queued
\* event are in place
C14_Witness ==
  /\ op = Op("removeAllListener", <<"A">>)
  /\ resolve["A"] = "w1" /\ resolve["B"] = "w2"
  /\ listeners["m"] = <<Entry(Undefined, "cb1"), Entry("B", "cb2")>>
  /\ handlers["m"] # <<>>
  /\ DOMAIN responder # {}
  /\ DOMAIN scheduleQueue # {}

\* the invocations an event from sender with params is to cause, given the
\* method's list when its dispatch begins
ExpectedInvocations(list, sender, params) ==
  LET mine == SelectSeq(list, LAMBDA l : \/ l.target = Undefined
                                         \/ resolve[l.target] = sender)
  IN  [i \in 1..Len(mine) |->
         [target |-> mine[i].target, callback |-> mine[i].callback, params |-> params]]

\* C15: an event for method from sender invokes, once each and in order,
\* the entries of the method's list as it was when the dispatch began that
\* are unscoped or scoped to a target resolving to sender, whatever the
\* listeners do to the registry meanwhile; the events of an array are
\* dispatched one after the other in array order.
C15_DispatchOverSnapshot ==
  [][ op'.name = "handleEvent"
      => LET sender == op'.args[1]
             payload == op'.args[2]
             behave == op'.args[3]
             events == IF IsArray(payload) THEN payload.array ELSE <<payload>>
             first == ExpectedInvocations(listeners[events[1].method], sender,
                                          events[1].params)
         IN  /\ Len(invoked') >= Len(first)
             /\ SubSeq(invoked', 1, Len(first)) = first
             /\ Len(events) = 1 => invoked' = first
             /\ \A i \in (Len(first) + 1)..Len(invoked') :
                  /\ invoked'[i].params = events[2].params
                  /\ invoked'[i].target = Undefined \/ resolve[invoked'[i].target] = sender
             \* the second event finds the list of its method as the step
             \* found it when no listener of the first changed that list
             /\ (/\ Len(events) = 2
                 /\ \/ \A c \in EventCallbacks : behave[c] = "none"
                    \/ /\ events[2].method # events[1].method
                       /\ \A c \in EventCallbacks : behave[c] # "removeAll")
                => invoked' = first \o ExpectedInvocations(listeners[events[2].method],
                                                          sender, events[2].params)
    ]_vars

\* cb1 and cb2 were both invoked for one event although cb1, invoked
\* first, removed itself from the list
C15_Witness ==
  /\ op.name = "handleEvent"
  /\ op.args[3]["cb1"] = "dispose"
  /\ Len(invoked) = 2
  /\ invoked[1].callback = "cb1" /\ invoked[2].callback = "cb2"
  /\ listeners["m"] = <<Entry(Undefined, "cb2")>>

\* the events queued under id
QueuedFor(queue, id) == IF id \in DOMAIN queue THEN queue[id] ELSE <<>>

\* C12: an emit to a target that resolves appends its Event to the queue
\* of the identity the target resolves to and to no other; a flush makes one
\* send per identity with queued events, to that identity: the array of the
\* queued Events in emit order when there are two or more, the bare Event
\* when there is one.
C12_FlushBatches ==
  [][ /\ (op'.name = "emit" /\ resolve[op'.args[1]] \in Identities)
         => \A id \in Identities :
              QueuedFor(scheduleQueue', id) =
                IF id = resolve[op'.args[1]]
                THEN Append(QueuedFor(scheduleQueue, id),
                            [to |-> id, channel |-> RPC_SEND_CHANNEL,
                             payload |-> [id |-> Undefined, method |-> op'.args[2],
                                          params |-> op'.args[3]]])
                ELSE QueuedFor(scheduleQueue, id)
      /\ op'.name = "flushQueue"
         => /\ Len(out') = Cardinality(DOMAIN scheduleQueue)
            /\ \A id \in DOMAIN scheduleQueue :
                 LET q == scheduleQueue[id]
                 IN  /\ Len(q) >= 1
                     /\ \E i \in 1..Len(out') :
                          /\ out'[i].to = id
                          /\ out'[i].channel = RPC_SEND_CHANNEL
                          /\ out'[i].payload =
                               IF Len(q) >= 2
                               THEN [array |-> [j \in 1..Len(q) |-> q[j].payload]]
                               ELSE q[1].payload
    ]_vars

\* one flush sent the two events emitted to w1 as an array, in emit order,
\* and the one event emitted to w2 bare
C12_Witness ==
  /\ op.name = "flushQueue"
  /\ Len(out) = 2
  /\ out[1].to = "w1"
  /\ out[1].payload = [array |-> <<[id |-> Undefined, method |-> "m", params |-> "x1"],
                                   [id |-> Undefined, method |-> "m", params |-> "x2"]>>]
  /\ out[2].to = "w2"
  /\ out[2].payload = [id |-> Undefined, method |-> "n", params |-> "x1"]

\* C17: an emit to a target that does not resolve (getSendable returns
\* nothing or throws) throws nothing, sends nothing, leaves the queue, the
\* tick and the flush timers as they were and changes no other state of
\* the engine; a flush sends queued events only, so nothing of it is sent
\* later either.
C17_EmitToReleasedTarget ==
  [][ /\ (op'.name = "emit" /\ resolve[op'.args[1]] \notin Identities)
         => /\ exc' = "none"
            /\ out' = <<>>
            /\ UNCHANGED queueVars
            /\ UNCHANGED <<uid, responder, calls, handlers, listeners, pending>>
      /\ op'.name = "flushQueue"
         => \A i \in 1..Len(out') :
              \E id \in DOMAIN scheduleQueue : \E j \in 1..Len(scheduleQueue[id]) :
                \/ out'[i].payload = scheduleQueue[id][j].payload
                \/ /\ IsArray(out'[i].payload)
                   /\ \E n \in 1..Len(out'[i].payload.array) :
                        out'[i].payload.array[n] = scheduleQueue[id][j].payload
    ]_vars

\* an emit to a target for which getSendable throws, made while an earlier
\* event is queued
C17_Witness ==
  /\ op.name = "emit"
  /\ resolve[op.args[1]] = Throws
  /\ QueuedCount(scheduleQueue) = 1
  /\ flushTimers = 1
  /\ uid = 0

\* the Events a send carries: those of the array, or the one
EventsOf(payload) == IF IsArray(payload) THEN payload.array ELSE <<payload>>

\* C20: an emit step sends nothing; one flush timer is set exactly while
\* the queue holds events (the first enqueue sets it, later ones set none);
\* a flush step empties the queue and hands every queued event to the
\* transport once, in one send to the Sendable it was queued for; and a
\* queue that holds events is flushed eventually.
C20_FlushScheduling ==
  /\ [](flushTimers = IF DOMAIN scheduleQueue # {} THEN 1 ELSE 0)
  /\ [][ /\ op'.name = "emit" => out' = <<>>
         /\ op'.name = "flushQueue"
            => /\ DOMAIN scheduleQueue' = {}
               /\ \A i \in 1..Len(out') : out'[i].to \in DOMAIN scheduleQueue
               /\ \A id \in DOMAIN scheduleQueue :
                    \E i \in 1..Len(out') :
                      /\ out'[i].to = id
                      /\ \A j \in 1..Len(out') : out'[j].to = id => j = i
                      /\ EventsOf(out'[i].payload) =
                           [n \in 1..Len(scheduleQueue[id]) |-> scheduleQueue[id][n].payload]
       ]_vars
  /\ (DOMAIN scheduleQueue # {}) ~> (op.name = "flushQueue" /\ DOMAIN scheduleQueue = {})

\* a second event was queued behind the first without a second timer
C20_Witness ==
  /\ op.name = "emit"
  /\ queueTick = 2
  /\ QueuedCount(scheduleQueue) = 2
  /\ flushTimers = 1
  /\ out = <<>>

\* the last step received a payload that is not JSON text
MalformedStep ==
  /\ op'.name \in {"handleResponse", "handleRequest"}
  /\ op'.args[Len(op'.args)] = Malformed

\* C16: a payload that cannot be deserialized, on the request path or on
\* the response path, raises no exception out of the engine, invokes no
\* handler, listener or caller callback, sends no response and leaves the
\* engine's state as it was.
C16_MalformedPayloadDropped ==
  [][ MalformedStep
      => /\ exc' = "none"
         /\ invoked' = <<>>
         /\ out' = <<>>
         /\ calls' = calls
         /\ UNCHANGED <<uid, responder, handlers, pending, eventVars>>
    ]_vars

\* C18: the outbound queue holds Event envelopes only.  A call to a target
\* that resolves sends its Request to that Sendable in the call step, with
\* its correlation entry (and timer, if any) in place at the end of that
\* step, and never touches the queue: requests go out in the order of the
\* calls.  Responses to inbound requests are sent in the step that makes
\* them and do not touch the queue either; a flush sends Events only.
C18_QueueHoldsEventsOnly ==
  /\ [](\A id \in DOMAIN scheduleQueue : \A j \in 1..Len(scheduleQueue[id]) :
          scheduleQueue[id][j].payload.id = Undefined)
  /\ [][ /\ (op'.name = "callHandler" /\ resolve[op'.args[1]] \in Identities)
            => LET c == Len(calls')
               IN  /\ c = Len(calls) + 1
                   /\ out' = <<[to |-> resolve[op'.args[1]],
                                channel |-> RPC_SEND_CHANNEL,
                                payload |-> [id |-> calls'[c].id,
                                             method |-> op'.args[2],
                                             result |-> Undefined,
                                             error |-> "null"]]>>
                   /\ HasOwn(responder', calls'[c].id)
                   /\ responder'[calls'[c].id].call = c
                   /\ calls'[c].timer \in {"armed", "none"}
                   /\ UNCHANGED queueVars
         /\ (op'.name \in {"handleRequest", "handlerSettle"} /\ exc' = "none")
            => /\ UNCHANGED queueVars
               /\ op'.name = "handlerSettle" => Len(out') = 1
               /\ \A i \in 1..Len(out') :
                    /\ out'[i].channel = RPC_RECEIVE_CHANNEL
                    /\ out'[i].payload.id = op'.args[2]
         /\ op'.name = "flushQueue"
            => \A i \in 1..Len(out') :
                 \A n \in 1..Len(EventsOf(out'[i].payload)) :
                   EventsOf(out'[i].payload)[n].id = Undefined
       ]_vars

\* a call's request went out at once, past two events still queued for
\* the same Sendable, and its correlation entry is in place
C18_Witness ==
  /\ op.name = "callHandler"
  /\ Len(out) = 1
  /\ out[1].to = "w1"
  /\ HasOwn(responder, out[1].payload.id)
  /\ HasOwn(scheduleQueue, "w1")
  /\ Len(scheduleQueue["w1"]) = 2
  /\ flushTimers = 1

\* C19: a response carrying the id of a pending call settles that call
\* with the response's result or error, whatever the order in which the
\* calls were made, and leaves every other call (its settlement and its
\* timer) and every other correlation entry as they were.
C19_ResponseMatchedById ==
  [][ op'.name = "handleResponse"
      => \A c \in Calls :
           (Pending(c) /\ calls[c].id = op'.args[1])
           => /\ calls'[c].cb = <<DeliveredOutcome(calls[c].method)>>
              /\ \A d \in Calls \ {c} : calls'[d] = calls[d]
              /\ DOMAIN responder' = DOMAIN responder \ {calls[c].id}
              /\ \A id \in DOMAIN responder' : responder'[id] = responder[id]
    ]_vars

\* the response to the second of two pending calls came first and settled
\* it with an error; the first call, with its timer, still waits
C19_Witness ==
  /\ Len(calls) = 2
  /\ op.name = "handleResponse"
  /\ op.args[1] = calls[2].id
  /\ Len(calls[2].cb) = 1
  /\ calls[2].cb[1].error.code = "E42"
  /\ Pending(1)
  /\ calls[1].timer = "armed"
  /\ DOMAIN responder = {calls[1].id}

====
